---- MODULE Spec2Model ----
(***************************************************************************)
(* Model of generate-subtitles.py: one run of main (argument parsing,      *)
(* input validation, collaborator import/load/transcribe, the cue-building *)
(* loop, write_webvtt, write_metadata, the summary print) and the pure     *)
(* helpers format_timestamp and normalize_text.                            *)
(*                                                                         *)
(* Times are exact numbers counted in units of 1/UnitsPerMs millisecond.   *)
(* Strings that the program inspects character by character (segment text) *)
(* are sequences of one-character strings; strings it only builds          *)
(* (timestamps) are TLA+ strings.  The subtitle file and the metadata file *)
(* are two different files.                                                *)
(***************************************************************************)
EXTENDS Integers, Sequences, FiniteSets, TLC

VARIABLES pc, args, outFile, metaFile, segments, cues, info, metadata,
          stdout, stderr, exitCode, log, failedAt,
          fmt, prev

vars == <<pc, args, outFile, metaFile, segments, cues, info, metadata,
          stdout, stderr, exitCode, log, failedAt,
          fmt, prev>>

runVars == <<pc, args, outFile, metaFile, segments, cues, info, metadata,
             stdout, stderr, exitCode, log, failedAt>>

fmtVars == <<fmt, prev>>

(***************************************************************************)
(* Bounds of the model.                                                    *)
(***************************************************************************)
\* time resolution: units per millisecond (2 = half milliseconds)
UnitsPerMs == 2
\* longest segment stream the collaborator yields
MaxSegs == 2
\* format_timestamp is tried on every time of -FmtRange..FmtRange units
FmtRange == 6

(***************************************************************************)
(* Program constants.                                                      *)
(***************************************************************************)
MsPerHour == 3600000
MsPerMinute == 60000
MsPerSecond == 1000
\* the 0.2 second repair of the cue builder, in milliseconds
MinCueMs == 200

Max(a, b) == IF a >= b THEN a ELSE b

(***************************************************************************)
(* format_timestamp                                                        *)
(***************************************************************************)
\* round(seconds * 1000.0): nearest integer millisecond, ties to even
RoundMs(t) ==
    LET q == t \div UnitsPerMs
        r == t % UnitsPerMs
    IN  IF 2 * r < UnitsPerMs THEN q
        ELSE IF 2 * r > UnitsPerMs THEN q + 1
        ELSE IF q % 2 = 0 THEN q ELSE q + 1

\* total_milliseconds = max(0, int(round(seconds * 1000.0)))
TotalMilliseconds(t) == Max(0, RoundMs(t))

\* faulty variant: the hours wrap at 24
TimestampFields_Wrap24(t) ==
    LET total0 == TotalMilliseconds(t)
        hours == (total0 \div MsPerHour) % 24
        total1 == total0 % MsPerHour
        minutes == total1 \div MsPerMinute
        total2 == total1 - minutes * MsPerMinute
        secs == total2 \div MsPerSecond
        milliseconds == total2 - secs * MsPerSecond
    IN  <<hours, minutes, secs, milliseconds>>

\* the decomposition into <<hours, minutes, secs, milliseconds>>
TimestampFields(t) ==
    LET total0 == TotalMilliseconds(t)
        hours == total0 \div MsPerHour
        total1 == total0 - hours * MsPerHour
        minutes == total1 \div MsPerMinute
        total2 == total1 - minutes * MsPerMinute
        secs == total2 \div MsPerSecond
        milliseconds == total2 - secs * MsPerSecond
    IN  <<hours, minutes, secs, milliseconds>>

DigitChars == <<"0", "1", "2", "3", "4", "5", "6", "7", "8", "9">>

RECURSIVE Decimal(_)
\* str(n) for n >= 0
Decimal(n) ==
    IF n < 10 THEN DigitChars[n + 1]
    ELSE Decimal(n \div 10) \o DigitChars[(n % 10) + 1]

RECURSIVE ZeroPad(_, _)
\* the format specs :02d and :03d : at least width digits, never truncated
ZeroPad(n, width) ==
    IF Len(Decimal(n)) >= width THEN Decimal(n)
    ELSE "0" \o ZeroPad(n, width - 1)

format_timestamp(t) ==
    LET f == TimestampFields(t)
    IN  ZeroPad(f[1], 2) \o ":" \o ZeroPad(f[2], 2) \o ":" \o
        ZeroPad(f[3], 2) \o "." \o ZeroPad(f[4], 3)

\* one call of format_timestamp: the argument, the locals at line 39 and the
\* returned string
FormatCall(t) ==
    [seconds |-> t, fields |-> TimestampFields(t), result |-> format_timestamp(t)]

(***************************************************************************)
(* normalize_text                                                          *)
(***************************************************************************)
Whitespace == {" ", "\t", "\n"}

RECURSIVE SplitWords(_, _, _)
\* str.split(): the maximal runs of non-whitespace characters, in order
SplitWords(s, cur, acc) ==
    IF s = <<>> THEN (IF cur = <<>> THEN acc ELSE Append(acc, cur))
    ELSE IF Head(s) \in Whitespace
         THEN SplitWords(Tail(s), <<>>,
                         IF cur = <<>> THEN acc ELSE Append(acc, cur))
         ELSE SplitWords(Tail(s), Append(cur, Head(s)), acc)

RECURSIVE JoinWords(_)
\* " ".join(words)
JoinWords(words) ==
    IF words = <<>> THEN <<>>
    ELSE IF Len(words) = 1 THEN words[1]
    ELSE words[1] \o <<" ">> \o JoinWords(Tail(words))

\* faulty variant: None is handled, whitespace is left as it is
normalize_text_Raw(value) ==
    IF value.tag = "str" THEN value.val ELSE <<>>

\* a text value is [tag |-> "str", val |-> chars] or tag "none" (None)
normalize_text(value) ==
    JoinWords(SplitWords(IF value.tag = "str" THEN value.val ELSE <<>>,
                         <<>>, <<>>))

(***************************************************************************)
(* Values exchanged with the command line, the collaborator and the files  *)
(***************************************************************************)
\* --meta-output: not given (None), given empty, given a path
MetaOutputs ==
    {[tag |-> "none", val |-> ""], [tag |-> "str", val |-> ""],
     [tag |-> "str", val |-> "meta.json"]}

NoArgs == [parsed |-> FALSE]

ParsedArgs(m) ==
    [parsed |-> TRUE, input |-> "in.mp4", output |-> "out.vtt",
     meta_output |-> m, model |-> "small", device |-> "cpu",
     compute_type |-> "int8"]

\* one tenth of a second
TickUnits == 100 * UnitsPerMs

Num(ticks) == [tag |-> "num", val |-> ticks * TickUnits]

\* the start attribute of a segment: -0.1 s, 0.2 s, missing, or a value that
\* float() rejects
StartVals ==
    {Num(-1), Num(2), [tag |-> "absent", val |-> 0], [tag |-> "bad", val |-> 0]}

\* the end attribute of a segment: 0 s, 0.2 s or missing
EndVals == {Num(0), Num(2), [tag |-> "absent", val |-> 0]}

\* the text attribute of a segment: None, whitespace only, or words in
\* whitespace
TextVals ==
    {[tag |-> "none", val |-> <<>>],
     [tag |-> "str", val |-> <<" ", "\n">>],
     [tag |-> "str", val |-> <<" ", "a", " ", "\t", "b", " ">>]}

Segments == [start : StartVals, end : EndVals, text : TextVals]

\* the summary record of the collaborator
Infos ==
    {[language |-> "en", language_probability |-> "0.9", duration |-> "12.5"]}

NoInfo == [transcribed |-> FALSE]
NoMetadata == [built |-> FALSE]

NoFile == [kind |-> "absent"]
OldFile == [kind |-> "old"]

(***************************************************************************)
(* The body of the cue-building loop, for one segment                      *)
(***************************************************************************)
\* faulty variant: "end < start", a zero-length segment is not repaired
BuildCue_StrictRepair(segment) ==
    LET text == normalize_text(segment.text)
        start == IF segment.start.tag = "absent" THEN 0
                 ELSE segment.start.val
        end0 == IF segment.end.tag = "absent" THEN start
                ELSE segment.end.val
        end == IF end0 < start THEN start + MinCueMs * UnitsPerMs ELSE end0
    IN  IF text = <<>> THEN [kind |-> "skip"]
        ELSE IF segment.start.tag = "bad"
             THEN [kind |-> "raise"]
             ELSE [kind |-> "cue", cue |-> <<start, end, text>>]

BuildCue(segment) ==
    LET text == normalize_text(segment.text)
        start == IF segment.start.tag = "absent" THEN 0
                 ELSE segment.start.val
        end0 == IF segment.end.tag = "absent" THEN start
                ELSE segment.end.val
        end == IF end0 <= start THEN start + MinCueMs * UnitsPerMs ELSE end0
    IN  IF text = <<>> THEN [kind |-> "skip"]
        ELSE IF segment.start.tag = "bad"
             THEN [kind |-> "raise"]
             ELSE [kind |-> "cue", cue |-> <<start, end, text>>]

(***************************************************************************)
(* write_webvtt and write_metadata                                         *)
(***************************************************************************)
\* faulty variant: enumerate(cues) without start=1
WebvttBlocks_FromZero(cs, k) ==
    [i \in 1..k |->
        [index |-> i - 1,
         timing |-> <<format_timestamp(cs[i][1]), format_timestamp(cs[i][2])>>,
         text |-> cs[i][3]]]

\* the blocks that the loop of write_webvtt writes for the first k cues
WebvttBlocks(cs, k) ==
    [i \in 1..k |->
        [index |-> i,
         timing |-> <<format_timestamp(cs[i][1]), format_timestamp(cs[i][2])>>,
         text |-> cs[i][3]]]

\* the file after the header and k blocks
WebvttFile(cs, k) ==
    [kind |-> "vtt", header |-> "WEBVTT", blocks |-> WebvttBlocks(cs, k)]

\* the file right after open(..., "w"): truncated, nothing written yet
EmptyFile == [kind |-> "empty"]

\* faulty variant: cue_count counts the segments, dropped ones included
BuildMetadata_CountSegments(a, i, cs) ==
    [language |-> i.language,
     language_probability |-> i.language_probability,
     duration_seconds |-> i.duration,
     cue_count |-> Len(segments),
     input |-> "/cwd/" \o a.input,
     output |-> "/cwd/" \o a.output,
     model |-> a.model,
     device |-> a.device,
     compute_type |-> a.compute_type]

BuildMetadata(a, i, cs) ==
    [language |-> i.language,
     language_probability |-> i.language_probability,
     duration_seconds |-> i.duration,
     cue_count |-> Len(cs),
     input |-> "/cwd/" \o a.input,
     output |-> "/cwd/" \o a.output,
     model |-> a.model,
     device |-> a.device,
     compute_type |-> a.compute_type]

JsonFile(payload) == [kind |-> "json", payload |-> payload]

\* "if not meta_output"
Truthy(m) == m.tag = "str" /\ m.val # ""

(***************************************************************************)
(* One run of main                                                         *)
(***************************************************************************)
\* no call of format_timestamp outside write_webvtt
FmtIdle == fmt = FormatCall(0) /\ prev = FormatCall(0)

Init ==
    /\ pc = "parse_args"
    /\ args = NoArgs
    /\ \E f \in {NoFile, OldFile} : outFile = f /\ metaFile = f
    /\ segments = <<>>
    /\ cues = <<>>
    /\ info = NoInfo
    /\ metadata = NoMetadata
    /\ stdout = <<>>
    /\ stderr = <<>>
    /\ exitCode = -1
    /\ log = <<>>
    /\ failedAt = "none"
    /\ FmtIdle

\* faulty variant: the handler reports and returns 0
Fail_ExitZero(stage, message) ==
    /\ pc' = "done"
    /\ exitCode' = 0
    /\ stderr' = Append(stderr, message)
    /\ failedAt' = stage

\* "except Exception" of main: report on standard error, return 1
Fail(stage, message) ==
    /\ pc' = "done"
    /\ exitCode' = 1
    /\ stderr' = Append(stderr, message)
    /\ failedAt' = stage

\* args = parse_args()
ParseArgs ==
    /\ pc = "parse_args"
    /\ \E m \in MetaOutputs : args' = ParsedArgs(m)
    /\ pc' = "isfile"
    /\ UNCHANGED <<outFile, metaFile, segments, cues, info, metadata, stdout,
                   stderr, exitCode, log, failedAt, fmtVars>>

\* parse_args() on a command line argparse rejects: usage on stderr, exit 2
ParseArgsError ==
    /\ pc = "parse_args"
    /\ pc' = "done"
    /\ exitCode' = 2
    /\ stderr' = Append(stderr, "usage")
    /\ failedAt' = "parse_args"
    /\ UNCHANGED <<args, outFile, metaFile, segments, cues, info, metadata,
                   stdout, log, fmtVars>>

\* faulty variant: the missing input is reported without "return 1"
ValidateInput_NoReturn ==
    /\ pc = "isfile"
    /\ log' = Append(log, "isfile")
    /\ pc' = "import"
    /\ \E isfile \in BOOLEAN :
          IF isfile
          THEN UNCHANGED <<exitCode, stderr, failedAt>>
          ELSE /\ stderr' = Append(stderr, "Input file does not exist")
               /\ failedAt' = "isfile"
               /\ UNCHANGED exitCode
    /\ UNCHANGED <<args, outFile, metaFile, segments, cues, info, metadata,
                   stdout, fmtVars>>

\* if not os.path.isfile(args.input)
ValidateInput ==
    /\ pc = "isfile"
    /\ log' = Append(log, "isfile")
    /\ \E isfile \in BOOLEAN :
          IF isfile
          THEN /\ pc' = "import"
               /\ UNCHANGED <<exitCode, stderr, failedAt>>
          ELSE Fail("isfile", "Input file does not exist")
    /\ UNCHANGED <<args, outFile, metaFile, segments, cues, info, metadata,
                   stdout, fmtVars>>

\* from faster_whisper import WhisperModel
ImportCollaborator ==
    /\ pc = "import"
    /\ log' = Append(log, "import")
    /\ \E ok \in BOOLEAN :
          IF ok
          THEN /\ pc' = "load"
               /\ UNCHANGED <<exitCode, stderr, failedAt>>
          ELSE Fail("import", "Failed to import faster_whisper")
    /\ UNCHANGED <<args, outFile, metaFile, segments, cues, info, metadata,
                   stdout, fmtVars>>

\* model = WhisperModel(...)
LoadModel ==
    /\ pc = "load"
    /\ log' = Append(log, "load")
    /\ \E ok \in BOOLEAN :
          IF ok
          THEN /\ pc' = "transcribe"
               /\ UNCHANGED <<exitCode, stderr, failedAt>>
          ELSE Fail("load", "Subtitle generation failed")
    /\ UNCHANGED <<args, outFile, metaFile, segments, cues, info, metadata,
                   stdout, fmtVars>>

\* segments_iterable, info = model.transcribe(...); cues = []
Transcribe ==
    /\ pc = "transcribe"
    /\ log' = Append(log, "transcribe")
    /\ \/ /\ \E i \in Infos : info' = i
          /\ pc' = "iterate"
          /\ UNCHANGED <<exitCode, stderr, failedAt>>
       \/ /\ Fail("transcribe", "Subtitle generation failed")
          /\ UNCHANGED info
    /\ UNCHANGED <<args, outFile, metaFile, segments, cues, metadata, stdout,
                   fmtVars>>

\* one pass of "for segment in segments_iterable" that gets a segment
NextSegment ==
    /\ pc = "iterate"
    /\ Len(segments) < MaxSegs
    /\ \E segment \in Segments :
          LET built == BuildCue(segment)
          IN  /\ segments' = Append(segments, segment)
              /\ log' = Append(log, "segment")
              /\ IF built.kind = "raise"
                 THEN /\ Fail("build_cues", "Subtitle generation failed")
                      /\ UNCHANGED cues
                 ELSE /\ cues' = IF built.kind = "cue"
                                 THEN Append(cues, built.cue) ELSE cues
                      /\ UNCHANGED <<pc, exitCode, stderr, failedAt>>
    /\ UNCHANGED <<args, outFile, metaFile, info, metadata, stdout, fmtVars>>

\* faulty variant: the cues built so far are written when the stream raises
StreamRaises_Salvage ==
    /\ pc = "iterate"
    /\ pc' = "write_webvtt"
    /\ stderr' = Append(stderr, "Subtitle generation failed")
    /\ failedAt' = "iterate"
    /\ UNCHANGED <<args, outFile, metaFile, segments, cues, info, metadata,
                   stdout, exitCode, log, fmtVars>>

\* the lazy stream raises instead of yielding its next segment
StreamRaises ==
    /\ pc = "iterate"
    /\ Fail("iterate", "Subtitle generation failed")
    /\ UNCHANGED <<args, outFile, metaFile, segments, cues, info, metadata,
                   stdout, log, fmtVars>>

\* the stream is exhausted: the loop ends
StreamEnds ==
    /\ pc = "iterate"
    /\ pc' = "write_webvtt"
    /\ UNCHANGED <<args, outFile, metaFile, segments, cues, info, metadata,
                   stdout, stderr, exitCode, log, failedAt, fmtVars>>

\* write_webvtt(args.output, cues)
WriteWebvtt ==
    /\ pc = "write_webvtt"
    /\ log' = Append(log, "write_webvtt")
    /\ \/ /\ outFile' = WebvttFile(cues, Len(cues))
          /\ pc' = "write_metadata"
          /\ UNCHANGED <<exitCode, stderr, failedAt>>
       \/ \* ensure_parent_dir or open raises
          /\ UNCHANGED outFile
          /\ Fail("write_webvtt", "Subtitle generation failed")
       \/ \* a write raises after the file was opened
          /\ \E k \in 0..Len(cues) :
                outFile' \in {EmptyFile, WebvttFile(cues, k)}
          /\ Fail("write_webvtt", "Subtitle generation failed")
    /\ UNCHANGED <<args, metaFile, segments, cues, info, metadata, stdout,
                   fmtVars>>

\* faulty variant: write_metadata without "if not meta_output: return"
WriteMetadata_NoGuard ==
    /\ pc = "write_metadata"
    /\ log' = Append(log, "write_metadata")
    /\ metadata' = BuildMetadata(args, info, cues)
    /\ \/ /\ metaFile' = JsonFile(metadata')
          /\ pc' = "print"
          /\ UNCHANGED <<exitCode, stderr, failedAt>>
       \/ /\ UNCHANGED metaFile
          /\ Fail("write_metadata", "Subtitle generation failed")
       \/ /\ metaFile' = EmptyFile
          /\ Fail("write_metadata", "Subtitle generation failed")
    /\ UNCHANGED <<args, outFile, segments, cues, info, stdout, fmtVars>>

\* metadata = {...}; write_metadata(args.meta_output, metadata)
WriteMetadata ==
    /\ pc = "write_metadata"
    /\ log' = Append(log, "write_metadata")
    /\ metadata' = BuildMetadata(args, info, cues)
    /\ IF ~Truthy(args.meta_output)
       THEN /\ UNCHANGED metaFile
            /\ pc' = "print"
            /\ UNCHANGED <<exitCode, stderr, failedAt>>
       ELSE \/ /\ metaFile' = JsonFile(metadata')
               /\ pc' = "print"
               /\ UNCHANGED <<exitCode, stderr, failedAt>>
            \/ \* ensure_parent_dir or open raises
               /\ UNCHANGED metaFile
               /\ Fail("write_metadata", "Subtitle generation failed")
            \/ \* json.dump raises after the file was opened
               /\ metaFile' = EmptyFile
               /\ Fail("write_metadata", "Subtitle generation failed")
    /\ UNCHANGED <<args, outFile, segments, cues, info, stdout, fmtVars>>

\* faulty variant: a failed print removes the subtitle file
PrintSummary_Cleanup ==
    /\ pc = "print"
    /\ log' = Append(log, "print")
    /\ \/ /\ stdout' = Append(stdout, metadata)
          /\ pc' = "done"
          /\ exitCode' = 0
          /\ UNCHANGED <<stderr, failedAt, outFile>>
       \/ /\ UNCHANGED stdout
          /\ outFile' = NoFile
          /\ Fail("print", "Subtitle generation failed")
    /\ UNCHANGED <<args, metaFile, segments, cues, info, metadata, fmtVars>>

\* print(json.dumps(metadata, ensure_ascii=True)); return 0
PrintSummary ==
    /\ pc = "print"
    /\ log' = Append(log, "print")
    /\ \/ /\ stdout' = Append(stdout, metadata)
          /\ pc' = "done"
          /\ exitCode' = 0
          /\ UNCHANGED <<stderr, failedAt>>
       \/ /\ UNCHANGED stdout
          /\ Fail("print", "Subtitle generation failed")
    /\ UNCHANGED <<args, outFile, metaFile, segments, cues, info, metadata,
                   fmtVars>>

Next ==
    \/ ParseArgs
    \/ ParseArgsError
    \/ ValidateInput
    \/ ImportCollaborator
    \/ LoadModel
    \/ Transcribe
    \/ NextSegment
    \/ StreamRaises
    \/ StreamEnds
    \/ WriteWebvtt
    \/ WriteMetadata
    \/ PrintSummary

Spec == Init /\ [][Next]_vars

(***************************************************************************)
(* format_timestamp on its own: consecutive calls on arbitrary times       *)
(***************************************************************************)
\* times around which a field of the timestamp rolls over, in milliseconds:
\* a second, a minute, an hour, 01:01:01.500, 24 hours, 100 hours
RolloverMs == {1000, 60000, 3600000, 3661500, 86400000, 360000000}

FmtInputs ==
    (-FmtRange..FmtRange)
    \cup {b * UnitsPerMs + d : b \in RolloverMs, d \in -UnitsPerMs..UnitsPerMs}

FmtInit ==
    /\ pc = "parse_args"
    /\ args = NoArgs
    /\ outFile = NoFile /\ metaFile = NoFile
    /\ segments = <<>>
    /\ cues = <<>>
    /\ info = NoInfo
    /\ metadata = NoMetadata
    /\ stdout = <<>>
    /\ stderr = <<>>
    /\ exitCode = -1
    /\ log = <<>>
    /\ failedAt = "none"
    /\ \E t \in FmtInputs : fmt = FormatCall(t) /\ prev = FormatCall(t)

Format ==
    /\ \E t \in FmtInputs : fmt' = FormatCall(t)
    /\ prev' = fmt
    /\ UNCHANGED runVars

FmtNext == Format

FmtSpec == FmtInit /\ [][FmtNext]_vars

(***************************************************************************)
(* Vocabulary of the properties                                            *)
(***************************************************************************)
\* the raw text has a character that is not whitespace
HasVisibleText(segment) ==
    /\ segment.text.tag = "str"
    /\ \E i \in 1..Len(segment.text.val) : segment.text.val[i] \notin Whitespace

\* the segments that yield a cue: visible text and a start float() accepts
YieldsCue(segment) == HasVisibleText(segment) /\ segment.start.tag # "bad"

GivenStart(segment) ==
    IF segment.start.tag = "absent" THEN 0 ELSE segment.start.val

\* the file is as the run found it
Untouched(file) == file \in {NoFile, OldFile}

\* the file holds the header and one block per cue
CompleteSubtitles(file) ==
    /\ file.kind = "vtt"
    /\ file.header = "WEBVTT"
    /\ Len(file.blocks) = Len(cues)

Stages ==
    <<"isfile", "import", "load", "transcribe", "segment", "write_webvtt",
      "write_metadata", "print">>

StageRank(e) == CHOOSE i \in 1..Len(Stages) : Stages[i] = e

Executions(e) == Cardinality({i \in 1..Len(log) : log[i] = e})

MetadataKeys ==
    {"language", "language_probability", "duration_seconds", "cue_count",
     "input", "output", "model", "device", "compute_type"}

PcOrder ==
    <<"parse_args", "isfile", "import", "load", "transcribe", "iterate",
      "write_webvtt", "write_metadata", "print", "done">>

\* some stage of main can run
CanStep ==
    CASE pc = "parse_args" -> ENABLED ParseArgs
      [] pc = "isfile" -> ENABLED ValidateInput
      [] pc = "import" -> ENABLED ImportCollaborator
      [] pc = "load" -> ENABLED LoadModel
      [] pc = "transcribe" -> ENABLED Transcribe
      [] pc = "iterate" -> ENABLED StreamEnds
      [] pc = "write_webvtt" -> ENABLED WriteWebvtt
      [] pc = "write_metadata" -> ENABLED WriteMetadata
      [] pc = "print" -> ENABLED PrintSummary
      [] OTHER -> FALSE

\* strictly increases with every step of a run and is bounded
Progress ==
    (CHOOSE i \in 1..Len(PcOrder) : PcOrder[i] = pc) * (MaxSegs + 1)
    + Len(segments)

C3_MissingInput ==
    failedAt = "isfile" =>
        /\ pc = "done"
        /\ exitCode = 1
        /\ stderr = <<"Input file does not exist">>
        /\ log = <<"isfile">>
        /\ Untouched(outFile) /\ Untouched(metaFile)
        /\ stdout = <<>>
        /\ segments = <<>> /\ info = NoInfo

C3_Witness == failedAt = "isfile" /\ outFile = OldFile /\ exitCode = 1

(***************************************************************************)
(* C4: when the model construction, the transcribe call or the iteration   *)
(* of the lazy stream raises, after any number of consumed segments,       *)
(* write_webvtt is never called, the output path is untouched and the run  *)
(* exits with 1.                                                           *)
(***************************************************************************)
C4_NoSubtitlesAfterFailedTranscription ==
    failedAt \in {"load", "transcribe", "iterate"} =>
        /\ Executions("write_webvtt") = 0
        /\ Untouched(outFile)
        /\ pc = "done"
        /\ exitCode = 1

\* the stream raises after segments were consumed and cues were built
C4_Witness ==
    /\ failedAt = "iterate"
    /\ Len(segments) = MaxSegs
    /\ Len(cues) >= 1

(***************************************************************************)
(* C5 as stated: every run ends with exit code 0 or 1; 1 exactly when the  *)
(* input is missing, the import or load fails or a later step raises, with *)
(* one report on standard error; no stage runs twice.                      *)
(***************************************************************************)
C5_AsStated ==
    pc = "done" =>
        /\ exitCode \in {0, 1}
        /\ exitCode = 1 <=>
              failedAt \in {"isfile", "import", "load", "transcribe",
                            "iterate", "build_cues", "write_webvtt",
                            "write_metadata", "print"}
        /\ exitCode = 1 => Len(stderr) = 1
        /\ \A e \in {"isfile", "import", "load", "transcribe", "write_webvtt",
                     "write_metadata", "print"} : Executions(e) <= 1

(***************************************************************************)
(* C5: every run in which parse_args returns ends, and ends with exit code *)
(* 0 or 1: 1 exactly when the input is missing, the import or load fails   *)
(* or a later step raises, each with one report on standard error, 0       *)
(* otherwise; a run that argparse rejects ends with exit code 2 before any *)
(* stage.  No stage runs twice and nothing runs after a failure.  Every    *)
(* step of a run raises the bounded measure Progress and a run that has    *)
(* not ended can take a step, so every run ends.                           *)
(***************************************************************************)
C5_ExitCodes ==
    /\ [](/\ pc = "done" /\ args # NoArgs =>
                /\ exitCode \in {0, 1}
                /\ exitCode = 1 <=>
                      failedAt \in {"isfile", "import", "load", "transcribe",
                                    "iterate", "build_cues", "write_webvtt",
                                    "write_metadata", "print"}
                /\ exitCode = 0 <=> failedAt = "none"
                /\ exitCode = 1 => Len(stderr) = 1
                /\ exitCode = 0 => stderr = <<>>
          /\ pc = "done" /\ args = NoArgs =>
                exitCode = 2 /\ log = <<>> /\ Len(stderr) = 1
          /\ pc # "done" => exitCode = -1 /\ failedAt = "none" /\ stderr = <<>>
          /\ \A e \in {"isfile", "import", "load", "transcribe",
                       "write_webvtt", "write_metadata", "print"} :
                Executions(e) <= 1
          /\ pc # "done" => CanStep
          /\ Progress <= (Len(PcOrder) + 1) * (MaxSegs + 1))
    /\ [][pc # "done" /\ Progress' > Progress]_vars

\* every stage ran once and the last one failed
C5_Witness ==
    /\ pc = "done" /\ exitCode = 1 /\ failedAt = "print"
    /\ \A e \in {"isfile", "import", "load", "transcribe", "write_webvtt",
                 "write_metadata", "print"} : Executions(e) = 1
    /\ Executions("segment") = MaxSegs

(***************************************************************************)
(* C6: without --meta-output, or with an empty one, write_metadata changes *)
(* no file and raises nothing, and a successful run prints one JSON line   *)
(* with the nine keys; with a path, the same record is in that file.       *)
(***************************************************************************)
C6_OptionalMetadataFile ==
    /\ (args # NoArgs /\ ~Truthy(args.meta_output)) =>
          /\ Untouched(metaFile)
          /\ failedAt # "write_metadata"
    /\ exitCode = 0 =>
          /\ Len(stdout) = 1
          /\ DOMAIN stdout[1] = MetadataKeys
          /\ Truthy(args.meta_output) => metaFile = JsonFile(stdout[1])

\* a successful run with --meta-output "" over an existing file
C6_Witness ==
    /\ exitCode = 0
    /\ args.meta_output = [tag |-> "str", val |-> ""]
    /\ metaFile = OldFile
    /\ Len(stdout) = 1

(***************************************************************************)
(* C7: for a time of m whole milliseconds, negative ones included, the     *)
(* fields H:M:S.mmm of format_timestamp add up to max(0, m), with          *)
(* 0 <= M, S <= 59, 0 <= mmm <= 999 and H >= 0 not wrapped at 24; negative *)
(* times and 0 give 00:00:00.000, 3661500 ms gives 01:01:01.500; the       *)
(* mapping is monotone non-decreasing in m.                                *)
(***************************************************************************)
WholeMs(call) == call.seconds % UnitsPerMs = 0

C7_TimestampFields ==
    /\ WholeMs(fmt) =>
          LET m == fmt.seconds \div UnitsPerMs
              total == IF m > 0 THEN m ELSE 0
              H == fmt.fields[1]
              M == fmt.fields[2]
              S == fmt.fields[3]
              mmm == fmt.fields[4]
          IN  /\ H * 3600000 + M * 60000 + S * 1000 + mmm = total
              /\ H >= 0 /\ M \in 0..59 /\ S \in 0..59 /\ mmm \in 0..999
              /\ H = total \div 3600000
              /\ m <= 0 => fmt.result = "00:00:00.000"
              /\ m = 3661500 => fmt.result = "01:01:01.500"
              /\ m = 86400000 => fmt.result = "24:00:00.000"
              /\ m = 360000000 - 1 => fmt.result = "99:59:59.999"
              /\ m = 360000000 => fmt.result = "100:00:00.000"
              /\ m = 1 => fmt.result = "00:00:00.001"
    /\ (WholeMs(prev) /\ WholeMs(fmt) /\ prev.seconds <= fmt.seconds) =>
          LET Ms(f) == f[1] * 3600000 + f[2] * 60000 + f[3] * 1000 + f[4]
          IN  Ms(prev.fields) <= Ms(fmt.fields)

\* a negative time followed by 3661.5 seconds
C7_Witness ==
    /\ prev.seconds = -UnitsPerMs /\ prev.result = "00:00:00.000"
    /\ fmt.seconds = 3661500 * UnitsPerMs /\ fmt.result = "01:01:01.500"

(***************************************************************************)
(* C8 as stated: every cue has start >= 0 and a non-empty normalized text, *)
(* whatever the segments are.                                              *)
(***************************************************************************)
C8_AsStated ==
    \A i \in 1..Len(cues) : cues[i][1] >= 0 /\ cues[i][3] # <<>>

(***************************************************************************)
(* C8: every cue has a non-empty normalized text (no whitespace at either  *)
(* end) and its start is the segment's start as given, 0.0 when absent;    *)
(* so its start is >= 0 when the segment's start is absent or >= 0, and    *)
(* negative when the segment's start is negative.                          *)
(***************************************************************************)
C8_StartAsGiven ==
    LET kept == SelectSeq(segments, YieldsCue)
    IN  /\ Len(cues) = Len(kept)
        /\ \A i \in 1..Len(cues) :
              LET text == cues[i][3]
              IN  /\ text # <<>>
                  /\ Head(text) \notin Whitespace
                  /\ text[Len(text)] \notin Whitespace
                  /\ cues[i][1] = GivenStart(kept[i])
                  /\ GivenStart(kept[i]) >= 0 <=> cues[i][1] >= 0

\* a cue of a segment without start next to a cue with a negative start
C8_Witness ==
    /\ Len(cues) = 2 /\ Len(segments) = 2
    /\ segments[1].start.tag = "absent" /\ cues[1][1] = 0
    /\ cues[2][1] < 0

====
